---- MODULE Spec2Model ----
(***************************************************************************)
(* A model of toast.cafe/x/gemini: the known-hosts trust verifier          *)
(* (cert/knownhosts.go), the managed certificate pool (cert/pool.go) and   *)
(* the Response codec of package gemini.                                   *)
(*                                                                         *)
(* Time is counted in ticks of 30 days, so that validLength (60 days) is   *)
(* 2 ticks.  Tick 0 is Go's zero time.Time.                                *)
(***************************************************************************)
EXTENDS Integers, Sequences, FiniteSets, TLC

VARIABLES
    now,        \* time.Now(), in ticks
    \* ---- cert/knownhosts.go
    kdir,       \* filepath.Dir(path) on disk: "missing", "dir" or "notdir"
    kfile,      \* the known-hosts file: [st, data]
    kstore,     \* the *KnownHosts the caller holds: "none", "nil" or "open"
    hosts,      \* KnownHosts.hosts: a function from the host names present
    klast,      \* observation of the last KnownHosts operation
    \* ---- cert/pool.go
    certsNil,   \* Pool.certs is the nil map
    certs,      \* Pool.certs: a function from the names cached
    disk,       \* the store directory: disk[name] = [key, pem], each a file
    nextGen,    \* the next key pair crypto/rand yields
    procs,      \* the goroutines that call Get on the pool
    pc,         \* pc[p]: where goroutine p is in Get / load / generate
    pname,      \* pname[p]: the name p's Get was called with
    pgen,       \* pgen[p]: the key pair and NotAfter p's generate made
    res,        \* res[p]: what p's last Get returned
    prev,       \* prev[p]: what p's Get before that returned
    obs,        \* obs[p]: observation of p's current Get call
    calls,      \* calls[p]: how many times p has called Get
    fails,      \* how many steps the environment has made fail
    crashed,    \* the process died of a panic
    \* ---- response (package gemini)
    resp,       \* the Response the program holds
    rlast,      \* observation of the last Response operation
    rhist,      \* what the Response has been through since it was idle
    panicked,   \* a Response operation panicked
    \* ---- request.go
    req,        \* the *Request the program holds
    qlast,      \* observation of the last Request operation
    \* ---- gmc/client.go
    cli,        \* the Client and the Ctx of a call of Do, and how far it is
    \* ---- gms/mux.go, gms/pool.go
    srv,        \* Server.Serve: its state and how many Accepts returned
    conns,      \* the connection goroutines, in the order they started
    robj,       \* the Responses resPool's New has made
    rstate,     \* rstate[id]: what was last done with Response id
    free        \* the Responses resPool holds

khVars == <<kdir, kfile, kstore, hosts, klast>>
poolVars == <<certsNil, certs, disk, nextGen, procs, pc, pname, pgen, res,
              prev, obs, calls, fails, crashed>>
respVars == <<resp, rlast, rhist, panicked>>
restVars == <<req, qlast, cli, srv, conns, robj, rstate, free>>
vars == <<now, kdir, kfile, kstore, hosts, klast, certsNil, certs, disk,
          nextGen, procs, pc, pname, pgen, res, prev, obs, calls, fails,
          crashed, resp, rlast, rhist, panicked, req, qlast, cli,
          srv, conns, robj, rstate, free>>

\* ---------------------------------------------------------------- bounds
MaxTime == 2

Times == 0..MaxTime

\* ------------------------------------------------------ cert/knownhosts.go
HostNames == {"h1", "h2"}

\* An x509 leaf certificate as VerifyCert reads it: Raw and NotAfter.
Raws == {"r1", "r2"}
LeafCerts == [Raw : Raws, NotAfter : Times]

\* sha512.Sum512 of the raw bytes, then padless base64 of the sum.
Sum512(raw) == <<"sha512", raw>>
RawStdEncoding(buf) == <<"b64", buf>>
Fingerprint(cert) == RawStdEncoding(Sum512(cert.Raw))

\* Host{Expiry, Fingerprint} as VerifyCert builds it from the leaf.
HostOf(cert) == [Expiry |-> cert.NotAfter, Fingerprint |-> Fingerprint(cert)]

IsZero(t) == t = 0
After(t, u) == t > u

\* json.Marshal of a map[string]Host: one member per key.
Marshal(h) == { <<k, h[k].Expiry, h[k].Fingerprint>> : k \in DOMAIN h }

\* The map a JSON object decodes to.
Decode(data) ==
    [k \in { e[1] : e \in data } |->
        LET e == CHOOSE x \in data : x[1] = k
        IN  [Expiry |-> e[2], Fingerprint |-> e[3]]]

\* json.Unmarshal(b, v): invalid JSON is a syntax error; a v that is not a
\* pointer is an InvalidUnmarshalError and v is left as it was; otherwise the
\* members are decoded into the map v points to.
Unmarshal(b, v) ==
    IF b.st # "json" THEN [err |-> TRUE, val |-> v.val]
    ELSE IF ~v.ptr THEN [err |-> TRUE, val |-> v.val]
    ELSE [err |-> FALSE,
          val |-> [k \in DOMAIN v.val \cup DOMAIN Decode(b.data) |->
                     IF k \in DOMAIN Decode(b.data) THEN Decode(b.data)[k]
                     ELSE v.val[k]]]

EmptyMap == [k \in {} |-> 0]

\* The known-hosts file: absent, a JSON object, or bytes that are not JSON.
NoFile == [st |-> "absent", data |-> {}]
Garbage == [st |-> "garbage", data |-> {}]
JsonFile(h) == [st |-> "json", data |-> Marshal(h)]

\* Load: ReadFile fails on an absent (or unreadable) file and leaves the cache;
\* otherwise the cache is dropped and the bytes are unmarshalled into r.hosts,
\* which is passed as the map itself, not as a pointer to it.
Load(readable) ==
    IF kfile.st = "absent" \/ ~readable
    THEN [err |-> TRUE, hosts |-> hosts]
    ELSE LET u == Unmarshal(kfile, [ptr |-> FALSE, val |-> EmptyMap])
         IN  [err |-> u.err, hosts |-> u.val]

\* Save as it would be if it were called before r.hosts[host] is assigned: the
\* mapping written is the one without the new record.
SaveStale(h, out) ==
    CASE out = "ok"        -> [err |-> FALSE,
                               file |-> [st |-> "json", data |-> Marshal(hosts)]]
      [] out = "openfail"  -> [err |-> TRUE,  file |-> kfile]
      [] out = "writefail" -> [err |-> TRUE,  file |-> [st |-> "garbage", data |-> {}]]

\* Save: Marshal, then ioutil.WriteFile (open with O_TRUNC, write, close).
\* out is what the file system does: "ok", "openfail" (file untouched) or
\* "writefail" (file truncated, write incomplete).
Save(h, out) ==
    CASE out = "ok"        -> [err |-> FALSE, file |-> JsonFile(h)]
      [] out = "openfail"  -> [err |-> TRUE,  file |-> kfile]
      [] out = "writefail" -> [err |-> TRUE,  file |-> Garbage]

SaveOutcomes == {"ok", "openfail", "writefail"}

\* What the last operation was given and what it did: op, its host and leaf,
\* old (the record it found: "none", "zero" (no expiry), "live" (Expiry after
\* now) or "expired"), differs (the leaf's fingerprint is not the stored one),
\* out (what the file system did), res (the error returned), memSame and
\* fileSame (r.hosts and the file were left as they were), again (the call
\* repeats the host and chain of a first use that returned nil just before).
NoOp == [op |-> "none", host |-> "h1", cert |-> [Raw |-> "r1", NotAfter |-> 0],
         old |-> "none", differs |-> FALSE, out |-> "none",
         res |-> "none", memSame |-> TRUE, fileSame |-> TRUE, again |-> FALSE]

\* NewKnownHosts(path)
NewKnownHosts ==
    \E mkdirOk \in BOOLEAN, readable \in BOOLEAN :
        /\ klast' = [NoOp EXCEPT !.op = "open",
                                  !.out = IF readable THEN "ok" ELSE "openfail"]
        /\ IF kdir = "notdir"
           THEN /\ kstore' = "nil"                  \* return nil, nil
                /\ UNCHANGED <<kdir, kfile, hosts>>
           ELSE IF kdir = "missing" /\ ~mkdirOk
           THEN /\ kstore' = "nil"                  \* return nil, err
                /\ UNCHANGED <<kdir, kfile, hosts>>
           ELSE LET l == Load(readable)
                IN  /\ kdir' = "dir"
                    /\ kstore' = "open"
                    /\ hosts' = IF l.err THEN EmptyMap ELSE l.hosts
                    /\ UNCHANGED kfile
        /\ UNCHANGED <<now, poolVars, respVars, restVars>>

\* The guard of knownhosts.go:61, which decides whether the fingerprint is
\* compared.
Compared(val) == ~(IsZero(val.Expiry) \/ After(val.Expiry, now))

\* VerifyCert as it would be if the error of Save were wrapped as a trust
\* error.
VerifyCertTrustOnSave(host, cert, out) ==
    /\ kstore = "open"
    /\ LET had == host \in DOMAIN hosts
           fc == Fingerprint(cert)
           mismatch == had /\ Compared(hosts[host]) /\ fc # hosts[host].Fingerprint
           newHosts == [k \in DOMAIN hosts \cup {host} |->
                          IF k = host THEN HostOf(cert) ELSE hosts[k]]
           s == Save(newHosts, out)
           o == [NoOp EXCEPT
                     !.op = "verify", !.host = host, !.cert = cert,
                     !.old = IF ~had THEN "none"
                             ELSE IF IsZero(hosts[host].Expiry) THEN "zero"
                             ELSE IF After(hosts[host].Expiry, now) THEN "live"
                             ELSE "expired",
                     !.differs = had /\ fc # hosts[host].Fingerprint]
       IN  IF mismatch
           THEN /\ klast' = [o EXCEPT !.res = "ErrCert"]
                /\ UNCHANGED <<hosts, kfile>>
           ELSE /\ hosts' = newHosts
                /\ kfile' = s.file
                /\ klast' = [o EXCEPT !.out = out,
                                        !.res = IF s.err THEN "ErrCert" ELSE "nil",
                                        !.memSame = (newHosts = hosts),
                                        !.fileSame = (s.file = kfile)]
    /\ UNCHANGED <<now, kdir, kstore, poolVars, respVars, restVars>>

\* (*KnownHosts).VerifyCert(host, certs), certs[0] = cert
VerifyCert(host, cert, out) ==
    /\ kstore = "open"
    /\ LET had == host \in DOMAIN hosts
           fc == Fingerprint(cert)
           mismatch == had /\ Compared(hosts[host]) /\ fc # hosts[host].Fingerprint
           newHosts == [k \in DOMAIN hosts \cup {host} |->
                          IF k = host THEN HostOf(cert) ELSE hosts[k]]
           s == Save(newHosts, out)
           o == [NoOp EXCEPT
                     !.op = "verify", !.host = host, !.cert = cert,
                     !.old = IF ~had THEN "none"
                             ELSE IF IsZero(hosts[host].Expiry) THEN "zero"
                             ELSE IF After(hosts[host].Expiry, now) THEN "live"
                             ELSE "expired",
                     !.differs = had /\ fc # hosts[host].Fingerprint,
                     !.again = /\ klast.op = "verify" /\ klast.old = "none"
                               /\ klast.res = "nil"
                               /\ klast.host = host /\ klast.cert = cert]
       IN  IF mismatch
           THEN /\ klast' = [o EXCEPT !.res = "ErrCert"]
                /\ UNCHANGED <<hosts, kfile>>
           ELSE /\ hosts' = newHosts
                /\ kfile' = s.file
                /\ klast' = [o EXCEPT !.out = out,
                                        !.res = IF s.err THEN "io" ELSE "nil",
                                        !.memSame = (newHosts = hosts),
                                        !.fileSame = (s.file = kfile)]
    /\ UNCHANGED <<now, kdir, kstore, poolVars, respVars, restVars>>

\* The leaves the server of a host presents: any for h1; h2 keeps one
\* certificate, valid to the end.
Presented(host) ==
    IF host = "h1" THEN LeafCerts ELSE {[Raw |-> "r1", NotAfter |-> MaxTime]}

Verify == \E host \in HostNames, out \in SaveOutcomes :
              \E cert \in Presented(host) : VerifyCert(host, cert, out)

TickKH == /\ now < MaxTime
          /\ now' = now + 1
          /\ UNCHANGED <<khVars, poolVars, respVars, restVars>>

\* ------------------------------------------------------------ cert/pool.go
Names == {"a", "b"}
Goroutines == {1, 2}
MaxGen == 3
MaxCalls == 2
MaxFail == 1

\* const validLength = time.Hour * 24 * 60, in ticks of 30 days
validLength == 2

\* A file of the store directory: absent, empty (opened with O_TRUNC and not
\* yet written), partial (a write that failed), or a complete PEM block of
\* generation gen (na: the certificate's NotAfter; 0 in a key file).
Absent == [st |-> "absent", gen |-> 0, na |-> 0]
Truncated == [st |-> "empty", gen |-> 0, na |-> 0]
Partial == [st |-> "partial", gen |-> 0, na |-> 0]
KeyPem(g) == [st |-> "pem", gen |-> g.gen, na |-> 0]
CertPem(g) == [st |-> "pem", gen |-> g.gen, na |-> g.na]
PairOf(g) == [key |-> KeyPem(g), pem |-> CertPem(g)]
NoPair == [key |-> Absent, pem |-> Absent]

NoGen == [gen |-> 0, na |-> 0]

\* A *tls.Certificate: its key material (gen), whether Certificate[0] parses,
\* and the leaf's NotAfter.
NoCert == [gen |-> 0, parses |-> FALSE, na |-> 0]

\* tls.LoadX509KeyPair(certpath, keypath): both files must hold a complete PEM
\* block, the certificate must parse, and the private key must match it.
LoadX509KeyPair(d, readable) ==
    IF /\ readable
       /\ d.pem.st = "pem" /\ d.key.st = "pem"
       /\ d.key.gen = d.pem.gen
    THEN [err |-> FALSE, cert |-> [gen |-> d.pem.gen, parses |-> TRUE, na |-> d.pem.na]]
    ELSE [err |-> TRUE, cert |-> NoCert]

\* leaf(cert): cert.Leaf, or x509.ParseCertificate(cert.Certificate[0])
leaf(cert) == [err |-> ~cert.parses, NotAfter |-> cert.na]

\* expired as it would be with the comparison left out
expiredNever(cert) == FALSE

\* expired as it would be with !now.Before(exp) for now.After(exp)
expiredEarly(cert) == leaf(cert).err \/ ~(now < leaf(cert).NotAfter)

\* expired(cert): true on a leaf that does not parse, else now.After(NotAfter)
expired(cert) ==
    LET xcert == leaf(cert)
    IN  IF xcert.err THEN TRUE ELSE After(now, xcert.NotAfter)

\* cert, ok := c.certs[name]: a read of the nil map finds nothing
Cached(name) == ~certsNil /\ name \in DOMAIN certs

\* NewStore(directory): var pool Pool; pool.store = directory.  The certs map
\* is not allocated.
NewStore == [certsNil |-> TRUE, certs |-> EmptyMap]

\* What a Get returned: a certificate, an error or a panic; the name it was
\* called with; at: the time of the call's last step.
NoRes == [kind |-> "none", cert |-> NoCert, at |-> 0, name |-> "a"]
\* start: what the call found ("nopair", "pair", "cached"); left: the call left
\* the cache-hit path (it loaded or generated); fail: a step of the call was
\* made to fail; via: how the current entry of Get was reached; gend: the call
\* has run generate; pre: disk[name] when its last generate began.
NoObs == [start |-> "none", left |-> FALSE, fail |-> FALSE, via |-> "none",
          gend |-> FALSE, pre |-> NoPair]

GenPcs == {"generate", "openkey", "opencert", "writekey", "writecert"}

\* A caller calls c.Get(name).
GetCall(p, name) ==
    /\ ~crashed /\ pc[p] = "idle"
    /\ calls[p] < MaxCalls
    /\ calls' = [calls EXCEPT ![p] = calls[p] + 1]
    /\ pc' = [pc EXCEPT ![p] = "Get"]
    /\ pname' = [pname EXCEPT ![p] = name]
    /\ prev' = [prev EXCEPT ![p] = res[p]]
    /\ res' = [res EXCEPT ![p] = NoRes]
    /\ obs' = [obs EXCEPT ![p] =
                 [NoObs EXCEPT !.via = "call",
                               !.start = IF Cached(name) THEN "cached"
                                         ELSE IF disk[name] = NoPair THEN "nopair"
                                         ELSE "pair"]]
    /\ UNCHANGED <<now, certsNil, certs, disk, nextGen, procs, pgen, fails,
                   crashed, khVars, respVars, restVars>>

\* Get returns (nil, err).
ReturnErr(p) ==
    /\ pc' = [pc EXCEPT ![p] = "idle"]
    /\ res' = [res EXCEPT ![p] = [kind |-> "err", cert |-> NoCert, at |-> now,
                                  name |-> pname[p]]]

\* pool.go:89-92: a cached certificate that is not expired is returned.
GetHit(p) ==
    /\ ~crashed /\ pc[p] = "Get"
    /\ Cached(pname[p]) /\ ~expired(certs[pname[p]])
    /\ pc' = [pc EXCEPT ![p] = "idle"]
    /\ res' = [res EXCEPT ![p] = [kind |-> "cert", cert |-> certs[pname[p]],
                                  at |-> now, name |-> pname[p]]]
    /\ UNCHANGED <<now, certsNil, certs, disk, nextGen, procs, pname, pgen, prev,
                   obs, calls, fails, crashed, khVars, respVars, restVars>>

\* pool.go:93-94: a cached certificate that is expired: call generate.
GetExpired(p) ==
    /\ ~crashed /\ pc[p] = "Get"
    /\ Cached(pname[p]) /\ expired(certs[pname[p]])
    /\ pc' = [pc EXCEPT ![p] = "generate"]
    /\ obs' = [obs EXCEPT ![p].via = "expired", ![p].left = TRUE]
    /\ UNCHANGED <<now, certsNil, certs, disk, nextGen, procs, pname, pgen, res,
                   prev, calls, fails, crashed, khVars, respVars, restVars>>

\* pool.go:100: nothing cached: call load.
GetMiss(p) ==
    /\ ~crashed /\ pc[p] = "Get"
    /\ ~Cached(pname[p])
    /\ pc' = [pc EXCEPT ![p] = "load"]
    /\ obs' = [obs EXCEPT ![p].left = TRUE]
    /\ UNCHANGED <<now, certsNil, certs, disk, nextGen, procs, pname, pgen, res,
                   prev, calls, fails, crashed, khVars, respVars, restVars>>

\* load(name), and Get's use of its result (pool.go:100-105): on an error Get
\* calls generate; otherwise c.certs[name] = &cert, which panics on the nil
\* map, and Get is entered again.
load(p, readable) ==
    /\ ~crashed /\ pc[p] = "load"
    /\ LET l == LoadX509KeyPair(disk[pname[p]], readable)
       IN  IF l.err
           THEN /\ pc' = [pc EXCEPT ![p] = "generate"]
                /\ obs' = [obs EXCEPT ![p].via = "miss"]
                /\ UNCHANGED <<certs, res, crashed>>
           ELSE IF certsNil
           THEN /\ crashed' = TRUE
                /\ pc' = [pc EXCEPT ![p] = "idle"]
                /\ res' = [res EXCEPT ![p] = [kind |-> "panic", cert |-> NoCert,
                                              at |-> now, name |-> pname[p]]]
                /\ UNCHANGED <<certs, obs>>
           ELSE /\ certs' = [k \in DOMAIN certs \cup {pname[p]} |->
                               IF k = pname[p] THEN l.cert ELSE certs[k]]
                /\ pc' = [pc EXCEPT ![p] = "Get"]
                /\ obs' = [obs EXCEPT ![p].via = "load"]
                /\ UNCHANGED <<res, crashed>>
    /\ (readable \/ fails < MaxFail)
    /\ fails' = IF readable THEN fails ELSE fails + 1
    /\ UNCHANGED <<now, certsNil, disk, nextGen, procs, pname, pgen, prev, calls,
                   khVars, respVars, restVars>>

\* generate, pool.go:135-161: the serial number, the key pair, the template
\* (NotAfter = NotBefore + validLength), the certificate and the marshalled
\* key.  Any of them may fail, and generate returns the error.
generateKey(p, ok) ==
    /\ ~crashed /\ pc[p] = "generate"
    /\ IF ok
       THEN /\ nextGen <= MaxGen
            /\ pgen' = [pgen EXCEPT ![p] = [gen |-> nextGen, na |-> now + validLength]]
            /\ nextGen' = nextGen + 1
            /\ pc' = [pc EXCEPT ![p] = "openkey"]
            /\ obs' = [obs EXCEPT ![p].gend = TRUE, ![p].pre = disk[pname[p]]]
            /\ UNCHANGED res
       ELSE /\ ReturnErr(p)
            /\ obs' = [obs EXCEPT ![p].gend = TRUE, ![p].pre = disk[pname[p]],
                                  ![p].fail = TRUE]
            /\ UNCHANGED <<pgen, nextGen>>
    /\ (ok \/ fails < MaxFail)
    /\ fails' = IF ok THEN fails ELSE fails + 1
    /\ UNCHANGED <<now, certsNil, certs, disk, procs, pname, prev, calls, crashed,
                   khVars, respVars, restVars>>

\* pool.go:166-169: os.OpenFile(keypath, O_WRONLY|O_CREATE|O_TRUNC)
openKey(p, ok) ==
    /\ ~crashed /\ pc[p] = "openkey"
    /\ IF ok
       THEN /\ disk' = [disk EXCEPT ![pname[p]].key = Truncated]
            /\ pc' = [pc EXCEPT ![p] = "opencert"]
            /\ UNCHANGED <<res, obs>>
       ELSE /\ ReturnErr(p)
            /\ obs' = [obs EXCEPT ![p].fail = TRUE]
            /\ UNCHANGED disk
    /\ (ok \/ fails < MaxFail)
    /\ fails' = IF ok THEN fails ELSE fails + 1
    /\ UNCHANGED <<now, certsNil, certs, nextGen, procs, pname, pgen, prev, calls,
                   crashed, khVars, respVars, restVars>>

\* pool.go:171-174: os.OpenFile(certpath, O_WRONLY|O_CREATE|O_TRUNC)
openCert(p, ok) ==
    /\ ~crashed /\ pc[p] = "opencert"
    /\ IF ok
       THEN /\ disk' = [disk EXCEPT ![pname[p]].pem = Truncated]
            /\ pc' = [pc EXCEPT ![p] = "writekey"]
            /\ UNCHANGED <<res, obs>>
       ELSE /\ ReturnErr(p)
            /\ obs' = [obs EXCEPT ![p].fail = TRUE]
            /\ UNCHANGED disk
    /\ (ok \/ fails < MaxFail)
    /\ fails' = IF ok THEN fails ELSE fails + 1
    /\ UNCHANGED <<now, certsNil, certs, nextGen, procs, pname, pgen, prev, calls,
                   crashed, khVars, respVars, restVars>>

\* pool.go:177-179: pem.Encode(kf, PRIVATE KEY), written from offset 0
writeKey(p, ok) ==
    /\ ~crashed /\ pc[p] = "writekey"
    /\ IF ok
       THEN /\ disk' = [disk EXCEPT ![pname[p]].key = KeyPem(pgen[p])]
            /\ pc' = [pc EXCEPT ![p] = "writecert"]
            /\ UNCHANGED <<res, obs>>
       ELSE /\ disk' = [disk EXCEPT ![pname[p]].key = Partial]
            /\ ReturnErr(p)
            /\ obs' = [obs EXCEPT ![p].fail = TRUE]
    /\ (ok \/ fails < MaxFail)
    /\ fails' = IF ok THEN fails ELSE fails + 1
    /\ UNCHANGED <<now, certsNil, certs, nextGen, procs, pname, pgen, prev, calls,
                   crashed, khVars, respVars, restVars>>

\* pool.go:180-184: pem.Encode(cf, CERTIFICATE); generate returns nil and Get
\* is entered again (pool.go:97, 107).
writeCert(p, ok) ==
    /\ ~crashed /\ pc[p] = "writecert"
    /\ IF ok
       THEN /\ disk' = [disk EXCEPT ![pname[p]].pem = CertPem(pgen[p])]
            /\ pc' = [pc EXCEPT ![p] = "Get"]
            /\ UNCHANGED <<res, obs>>
       ELSE /\ disk' = [disk EXCEPT ![pname[p]].pem = Partial]
            /\ ReturnErr(p)
            /\ obs' = [obs EXCEPT ![p].fail = TRUE]
    /\ (ok \/ fails < MaxFail)
    /\ fails' = IF ok THEN fails ELSE fails + 1
    /\ UNCHANGED <<now, certsNil, certs, nextGen, procs, pname, pgen, prev, calls,
                   crashed, khVars, respVars, restVars>>

TickPool == /\ now < MaxTime
            /\ now' = now + 1
            /\ UNCHANGED <<poolVars, khVars, respVars, restVars>>

\* The pool NewStore returns (certs nil), or a Pool whose certs field holds an
\* allocated, empty map (pool.go allocates it nowhere: only a Pool built inside
\* package cert has one).  The directory is empty or holds a pair an earlier
\* run left, for each of the names ns.  The goroutines of g call Get.
PoolStart(g, ns) ==
    /\ \E alloc \in BOOLEAN :
          /\ certsNil = IF alloc THEN FALSE ELSE NewStore.certsNil
          /\ certs = NewStore.certs
    /\ disk \in [ns -> {NoPair} \cup { PairOf([gen |-> 0, na |-> t]) : t \in Times }]
    /\ nextGen = 1
    /\ procs = g
    /\ pc = [p \in Goroutines |-> "idle"]
    /\ pname = [p \in Goroutines |-> "a"]
    /\ pgen = [p \in Goroutines |-> NoGen]
    /\ res = [p \in Goroutines |-> NoRes]
    /\ prev = [p \in Goroutines |-> NoRes]
    /\ obs = [p \in Goroutines |-> NoObs]
    /\ calls = [p \in Goroutines |-> 0]
    /\ fails = 0
    /\ crashed = FALSE

\* ------------------------------------------- response (package gemini)
\* A byte is a number in 0..255; a []byte or a string is a sequence of bytes.
\* A value that can be nil (a slice, an interface) is Nil or Some(v).
Nil == <<>>
Some(v) == <<v>>
Val(o) == o[1]
Bytes(o) == IF o = Nil THEN <<>> ELSE o[1]
Min(a, b) == IF a <= b THEN a ELSE b

\* gemini.MaxMeta (1024 in the source) and the longest body, scaled down.
MaxMeta == 2
MaxBody == 2

Space == 32
Zero == 48
CRLF == <<13, 10>>
IsDigit(c) == c >= Zero /\ c <= Zero + 9

\* strconv.Itoa, for the values a Status holds in the model (0..255).
RECURSIVE Itoa(_)
Itoa(i) ==
    IF i < 10 THEN <<Zero + i>> ELSE Itoa(i \div 10) \o <<Zero + (i % 10)>>

\* fastAtoi works on bytes: every operation is uint8 arithmetic.
fastAtoi(b) ==
    (((10 * ((b[1] - Zero) % 256)) % 256) + ((b[2] - Zero) % 256)) % 256

\* bytes.Index: the offset of the first sep in s, or -1.
Index(s, sep) ==
    LET hits == { i \in 0..(Len(s) - Len(sep)) :
                    SubSeq(s, i + 1, i + Len(sep)) = sep }
    IN  IF hits = {} THEN -1 ELSE CHOOSE i \in hits : \A j \in hits : i <= j

\* var r Response
ZeroResponse ==
    [Status |-> 0, meta |-> Nil, body |-> Nil, read |-> FALSE,
     flushed |-> FALSE, reader |-> Nil, writer |-> Nil]

Meta(r) == Bytes(r.meta)

Header(r) ==
    LET m == Bytes(r.meta)
        d == Itoa(r.Status)
        l == Len(m) + 5
    IN  [i \in 1..l |->
            IF i = l THEN CRLF[2]
            ELSE IF i = l - 1 THEN CRLF[1]
            ELSE IF i > 3 THEN m[i - 3]
            ELSE IF i = 3 THEN Space
            ELSE IF i <= Len(d) THEN d[i]
            ELSE 0]

\* The writer is a pointer to a zero bytes.Buffer, whose slice is nil.
ServerPrepare(r) == [r EXCEPT !.writer = Some(Nil)]

NewResponseLoose(status, meta) ==
    IF Len(meta) > MaxMeta THEN [ret |-> Nil, err |-> "ErrHeader"]
    ELSE IF status < 10 \/ status > 100 THEN [ret |-> Nil, err |-> "ErrHeader"]
    ELSE [ret |-> Some(ServerPrepare([ZeroResponse EXCEPT
                                        !.meta = Some(meta),
                                        !.Status = status])),
          err |-> "nil"]

NewResponse(status, meta) ==
    IF Len(meta) > MaxMeta THEN [ret |-> Nil, err |-> "ErrHeader"]
    ELSE IF status < 10 \/ status >= 100 THEN [ret |-> Nil, err |-> "ErrHeader"]
    ELSE [ret |-> Some(ServerPrepare([ZeroResponse EXCEPT
                                        !.meta = Some(meta),
                                        !.Status = status])),
          err |-> "nil"]

\* The switch of Reset, one case per pass; it has no case for flushed.
RECURSIVE Reset(_)
Reset(r) ==
    IF r.Status # 0 THEN Reset([r EXCEPT !.Status = 0])
    ELSE IF r.meta # Nil THEN Reset([r EXCEPT !.meta = Nil])
    ELSE IF r.body # Nil THEN Reset([r EXCEPT !.body = Nil])
    ELSE IF r.read THEN Reset([r EXCEPT !.read = FALSE])
    ELSE IF r.reader # Nil THEN Reset([r EXCEPT !.reader = Nil])
    ELSE IF r.writer # Nil THEN [r EXCEPT !.writer = Nil]
    ELSE r

\* An io.Reader: the bytes it still holds and the most it hands out per
\* Read (0: no limit, as bytes.Reader).  It reports io.EOF with 0 bytes.
Avail(reader, want) ==
    Min(want, IF reader.chunk = 0 THEN Len(reader.data)
              ELSE Min(reader.chunk, Len(reader.data)))

\* len(buf) in FromReader
HeaderWindowWide == MaxMeta + 6

HeaderWindow == MaxMeta + 5

\* The reader FromReader leaves is io.MultiReader(head, reader).
FromReader(r, reader) ==
    LET n == Avail(reader, HeaderWindow)
        buf == SubSeq(reader.data, 1, n)
        st == fastAtoi(buf)
        delim == Index(SubSeq(buf, 4, n), CRLF) + 3
        bad == [r |-> [r EXCEPT !.Status = st], n |-> n, err |-> "ErrHeader"]
    IN  IF n < 4 THEN [r |-> r, n |-> n, err |-> "ErrHeader"]
        ELSE IF st > 99 \/ st < 10 THEN bad
        ELSE IF buf[3] # Space THEN bad
        ELSE IF delim = 2 THEN bad
        ELSE [r |-> [r EXCEPT
                       !.Status = st,
                       !.meta = Some(SubSeq(buf, 4, delim)),
                       !.reader = Some([head |-> SubSeq(buf, delim + 3, n),
                                        data |-> SubSeq(reader.data, n + 1,
                                                        Len(reader.data)),
                                        chunk |-> reader.chunk])],
              n |-> n, err |-> "nil"]

\* Read into a buffer of l bytes.  A nil reader is a nil dereference.
Read(r, l) ==
    LET r1 == [r EXCEPT !.read = TRUE]
        rd == Val(r.reader)
        k == IF rd.head # <<>> THEN Min(l, Len(rd.head)) ELSE Avail(rd, l)
    IN  IF r.reader = Nil
        THEN [r |-> r1, n |-> 0, out |-> <<>>, err |-> "panic"]
        ELSE IF rd.head # <<>>
        THEN [r |-> [r1 EXCEPT !.reader = Some([rd EXCEPT !.head =
                                    SubSeq(rd.head, k + 1, Len(rd.head))])],
              n |-> k, out |-> SubSeq(rd.head, 1, k), err |-> "nil"]
        ELSE IF rd.data = <<>>
        THEN [r |-> r1, n |-> 0, out |-> <<>>, err |-> "EOF"]
        ELSE [r |-> [r1 EXCEPT !.reader = Some([rd EXCEPT !.data =
                                    SubSeq(rd.data, k + 1, Len(rd.data))])],
              n |-> k, out |-> SubSeq(rd.data, 1, k), err |-> "nil"]

\* bytes.Buffer.Write: the slice stays nil when nothing was ever written.
Grown(buffer, b) ==
    IF buffer = Nil /\ b = <<>> THEN Nil ELSE Some(Bytes(buffer) \o b)

WriteUnguarded(r, b) ==
    IF r.writer = Nil THEN [r |-> r, n |-> 0, err |-> "panic"]
    ELSE [r |-> [r EXCEPT !.writer = Some(Grown(Val(r.writer), b))],
          n |-> Len(b), err |-> "nil"]

WritePrepend(r, b) ==
    IF r.flushed THEN [r |-> r, n |-> 0, err |-> "ErrFlush"]
    ELSE IF r.writer = Nil THEN [r |-> r, n |-> 0, err |-> "panic"]
    ELSE [r |-> [r EXCEPT !.writer = Some(Some(b \o Bytes(Val(r.writer))))],
          n |-> Len(b), err |-> "nil"]

Write(r, b) ==
    IF r.flushed THEN [r |-> r, n |-> 0, err |-> "ErrFlush"]
    ELSE IF r.writer = Nil THEN [r |-> r, n |-> 0, err |-> "panic"]
    ELSE [r |-> [r EXCEPT !.writer = Some(Grown(Val(r.writer), b))],
          n |-> Len(b), err |-> "nil"]

WriteString(r, s) ==
    IF r.flushed THEN [r |-> r, n |-> 0, err |-> "ErrFlush"]
    ELSE IF r.writer = Nil THEN [r |-> r, n |-> 0, err |-> "panic"]
    ELSE [r |-> [r EXCEPT !.writer = Some(Grown(Val(r.writer), s))],
          n |-> Len(s), err |-> "nil"]

\* body is the buffer's slice (nil if nothing was written); the reader is
\* a bytes.Reader over it.
Flush(r) ==
    LET r1 == [r EXCEPT !.flushed = TRUE]
    IN  IF r.writer = Nil THEN [r |-> r1, err |-> "panic"]
        ELSE [r |-> [r1 EXCEPT
                       !.body = Val(r.writer),
                       !.reader = Some([head |-> Bytes(Val(r.writer)),
                                        data |-> <<>>, chunk |-> 0])],
              err |-> "nil"]

\* ioutil.ReadAll drains the reader and returns a slice that is not nil.
Body(r) ==
    IF r.body # Nil THEN [r |-> r, out |-> Val(r.body), err |-> "nil"]
    ELSE IF r.reader # Nil
    THEN IF r.read THEN [r |-> r, out |-> <<>>, err |-> "ErrRead"]
         ELSE LET rd == Val(r.reader)
              IN  [r |-> [r EXCEPT
                            !.body = Some(rd.head \o rd.data),
                            !.reader = Some([rd EXCEPT !.head = <<>>,
                                                       !.data = <<>>])],
                   out |-> rd.head \o rd.data, err |-> "nil"]
    ELSE [r |-> r, out |-> <<>>, err |-> "nil"]

\* ---- the operations as steps of a program that holds one Response
NoLast ==
    [op |-> "none", err |-> "nil", n |-> 0, out |-> <<>>, arg |-> <<>>,
     status |-> 0, chunk |-> 0, ret |-> FALSE, pre |-> ZeroResponse]

\* What the instance has been through: path is "idle" (zero value or
\* Reset), "writing" (NewResponse, or ServerPrepare when idle), "flushed"
\* (Flush when writing), "client" (FromReader succeeded when idle) or
\* "other".
NoHist ==
    [path |-> "idle", byNew |-> FALSE, made |-> Nil, echo |-> FALSE,
     written |-> <<>>, full |-> <<>>, readSeen |-> FALSE, drained |-> FALSE]

Seen(op, o) == [NoLast EXCEPT !.op = op, !.err = o.err]

OpNewResponse(status, meta) ==
    LET o == NewResponse(status, meta)
    IN  /\ ~panicked
        /\ resp' = IF o.ret = Nil THEN resp ELSE Val(o.ret)
        /\ rlast' = [Seen("NewResponse", o) EXCEPT
                       !.status = status, !.arg = meta, !.ret = (o.ret # Nil)]
        /\ rhist' = IF o.ret = Nil THEN [rhist EXCEPT !.made = Nil]
                    ELSE [NoHist EXCEPT !.path = "writing", !.byNew = TRUE,
                                        !.made = Some([status |-> status,
                                                       meta |-> meta])]
        /\ UNCHANGED <<panicked, now, khVars, poolVars, restVars>>

OpServerPrepare ==
    /\ ~panicked
    /\ resp' = ServerPrepare(resp)
    /\ rlast' = [NoLast EXCEPT !.op = "ServerPrepare"]
    /\ rhist' = IF rhist.path = "idle"
                THEN [NoHist EXCEPT !.path = "writing"]
                ELSE [NoHist EXCEPT !.path = "other"]
    /\ UNCHANGED <<panicked, now, khVars, poolVars, restVars>>

OpReset ==
    /\ ~panicked
    /\ resp' = Reset(resp)
    /\ rlast' = [NoLast EXCEPT !.op = "Reset"]
    /\ rhist' = NoHist
    /\ UNCHANGED <<panicked, now, khVars, poolVars, restVars>>

OpHeader ==
    /\ ~panicked
    /\ rlast' = [NoLast EXCEPT !.op = "Header", !.out = Header(resp)]
    /\ UNCHANGED <<resp, rhist, panicked, now, khVars, poolVars, restVars>>

OpFromReader(reader) ==
    LET o == FromReader(resp, reader)
    IN  /\ ~panicked
        /\ resp' = o.r
        /\ rlast' = [Seen("FromReader", o) EXCEPT
                       !.arg = reader.data, !.chunk = reader.chunk,
                       !.n = o.n, !.pre = resp]
        /\ rhist' =
             [rhist EXCEPT
                !.path = IF rhist.path = "idle" /\ o.err = "nil"
                         THEN "client" ELSE "other",
                !.echo = (rlast.op = "Header" /\ rhist.path = "writing"
                          /\ rhist.made # Nil /\ reader.data = rlast.out),
                !.full = IF o.err = "nil"
                         THEN Val(o.r.reader).head \o Val(o.r.reader).data
                         ELSE <<>>,
                !.readSeen = FALSE, !.drained = FALSE]
        /\ UNCHANGED <<panicked, now, khVars, poolVars, restVars>>

OpRead(l) ==
    LET o == Read(resp, l)
    IN  /\ ~panicked
        /\ resp' = o.r
        /\ rlast' = [Seen("Read", o) EXCEPT !.n = o.n, !.out = o.out]
        /\ rhist' = [rhist EXCEPT
                       !.path = IF @ \in {"client", "flushed"} THEN @
                                ELSE "other",
                       !.made = Nil, !.readSeen = TRUE]
        /\ panicked' = (o.err = "panic")
        /\ UNCHANGED <<now, khVars, poolVars, restVars>>

\* The body written is kept within MaxBody bytes.
Fits(b) ==
    IF resp.writer = Nil THEN TRUE
    ELSE Len(Bytes(Val(resp.writer))) + Len(b) <= MaxBody

Wrote(o, b) ==
    [rhist EXCEPT
       !.path = IF @ \in {"writing", "flushed"} THEN @ ELSE "other",
       !.made = Nil,
       !.written = IF o.err = "nil" THEN @ \o b ELSE @]

OpWrite(b) ==
    LET o == Write(resp, b)
    IN  /\ ~panicked
        /\ Fits(b)
        /\ resp' = o.r
        /\ rlast' = [Seen("Write", o) EXCEPT !.n = o.n, !.arg = b,
                                            !.pre = resp]
        /\ rhist' = Wrote(o, b)
        /\ panicked' = (o.err = "panic")
        /\ UNCHANGED <<now, khVars, poolVars, restVars>>

OpWriteString(s) ==
    LET o == WriteString(resp, s)
    IN  /\ ~panicked
        /\ Fits(s)
        /\ resp' = o.r
        /\ rlast' = [Seen("WriteString", o) EXCEPT !.n = o.n, !.arg = s,
                                                  !.pre = resp]
        /\ rhist' = Wrote(o, s)
        /\ panicked' = (o.err = "panic")
        /\ UNCHANGED <<now, khVars, poolVars, restVars>>

OpFlush ==
    LET o == Flush(resp)
    IN  /\ ~panicked
        /\ resp' = o.r
        /\ rlast' = Seen("Flush", o)
        /\ rhist' = [rhist EXCEPT
                       !.path = IF @ \in {"writing", "flushed"} THEN "flushed"
                                ELSE "other",
                       !.made = Nil]
        /\ panicked' = (o.err = "panic")
        /\ UNCHANGED <<now, khVars, poolVars, restVars>>

OpBody ==
    LET o == Body(resp)
    IN  /\ ~panicked
        /\ resp' = o.r
        /\ rlast' = [Seen("Body", o) EXCEPT !.out = o.out]
        /\ rhist' = [rhist EXCEPT
                       !.path = IF @ \in {"client", "flushed"} THEN @
                                ELSE "other",
                       !.made = Nil,
                       !.drained = (@ \/ (o.err = "nil" /\ resp.body = Nil
                                            /\ resp.reader # Nil))]
        /\ UNCHANGED <<panicked, now, khVars, poolVars, restVars>>

\* ---- the inputs
\* "ab.." of k bytes
Letters(k) == [i \in 1..k |-> 96 + i]

Seqs(S, k) == UNION { [1..i -> S] : i \in 0..k }

\* Status arguments of NewResponse around both ends of [10,99].
Statuses == {-1, 0, 9, 10, 20, 99, 100}

\* Metas of up to MaxMeta+1 bytes over 'm', CR and LF.
Metas == Seqs({109, 13, 10}, MaxMeta + 1)

\* How much a reader hands out per Read: all it has, or 5 bytes.
Chunks == {0, 5}

\* The first two bytes of a stream: "20", "10", "99", "09", "1:", "J6",
\* "ab", CR LF.  The third byte: a space or 'x'.
Firsts ==
    {<<50, 48>>, <<49, 48>>, <<57, 57>>, <<48, 57>>, <<49, 58>>, <<74, 54>>,
     <<97, 98>>, CRLF}

Thirds == {Space, 120}

Ends == {CRLF, <<10>>, <<>>}

Streams ==
    { f \o <<t>> \o m \o e \o b :
        f \in Firsts, t \in Thirds, m \in Metas, e \in Ends,
        b \in {<<>>, Letters(1)} }
    \cup { SubSeq(<<50, 48, Space>>, 1, i) : i \in 0..3 }

\* The streams of the life-cycle specification: "20 m\r\n" and "20 \r\n"
\* followed by MaxBody bytes, "20 \r\n" alone, and "20 m" cut short.
FewStreams ==
    { <<50, 48, Space, 109>> \o CRLF \o Letters(MaxBody),
      <<50, 48, Space>> \o CRLF \o Letters(MaxBody),
      <<50, 48, Space>> \o CRLF,
      <<50, 48, Space, 109>> }

WriteArgs == {<<>>, <<97>>, <<98>>}

RespUnused ==
    resp = ZeroResponse /\ rlast = NoLast /\ rhist = NoHist /\ panicked = FALSE

\* -------------------------------------------- request.go (package gemini)
\* gemini.MaxURL (1024 in the source), scaled down.
MaxURL == 6

Colon == 58
Slash == 47
DefaultScheme == <<103, 101, 109, 105, 110, 105>>
DefaultPort == <<Colon, 49, 57, 54, 53>>

\* strings.LastIndexByte and strings.IndexByte, as positions from 1; 0 is
\* "not found".
LastIndexByte(s, c) ==
    LET hits == { i \in 1..Len(s) : s[i] = c }
    IN  IF hits = {} THEN 0 ELSE CHOOSE i \in hits : \A j \in hits : j <= i

IndexByte(s, c) ==
    LET hits == { i \in 1..Len(s) : s[i] = c }
    IN  IF hits = {} THEN 0 ELSE CHOOSE i \in hits : \A j \in hits : i <= j

HasPrefix(s, p) == Len(s) >= Len(p) /\ SubSeq(s, 1, Len(p)) = p

\* net/url: a port is empty or a colon followed by digits only.
validOptionalPort(p) ==
    p = <<>> \/ (p[1] = Colon /\ \A i \in 2..Len(p) : IsDigit(p[i]))

\* net/url splitHostPort, behind URL.Hostname and URL.Port.
splitHostPort(hostPort) ==
    LET colon == LastIndexByte(hostPort, Colon)
        split == colon # 0
                   /\ validOptionalPort(SubSeq(hostPort, colon, Len(hostPort)))
        h == IF split THEN SubSeq(hostPort, 1, colon - 1) ELSE hostPort
        bracketed == Len(h) >= 2 /\ h[1] = 91 /\ h[Len(h)] = 93
    IN  [host |-> IF bracketed THEN SubSeq(h, 2, Len(h) - 1) ELSE h,
         port |-> IF split THEN SubSeq(hostPort, colon + 1, Len(hostPort))
                  ELSE <<>>]

Hostname(u) == splitHostPort(u.Host).host
Port(u) == splitHostPort(u.Host).port

\* path.IsAbs
IsAbs(p) == Len(p) > 0 /\ p[1] = Slash

\* The fields of url.URL that the package reads or writes.
EmptyURL ==
    [Scheme |-> <<>>, Opaque |-> <<>>, User |-> Nil, Host |-> <<>>,
     Path |-> <<>>]

CanonicalizeKeepsUser(u) ==
    LET u1 == [u EXCEPT !.Opaque = <<>>]
        u2 == [u1 EXCEPT !.Scheme = IF @ = <<>> THEN DefaultScheme ELSE @]
    IN  IF Hostname(u1) = <<>> \/ ~IsAbs(u1.Path)
        THEN [u |-> u1, ok |-> FALSE]
        ELSE [u |-> [u2 EXCEPT !.Host = IF Port(u2) = <<>>
                                         THEN @ \o DefaultPort ELSE @],
              ok |-> TRUE]

\* Canonicalize works on the url.URL the request points to.
Canonicalize(u) ==
    LET u1 == [u EXCEPT !.Opaque = <<>>, !.User = Nil]
        u2 == [u1 EXCEPT !.Scheme = IF @ = <<>> THEN DefaultScheme ELSE @]
    IN  IF Hostname(u1) = <<>> \/ ~IsAbs(u1.Path)
        THEN [u |-> u1, ok |-> FALSE]
        ELSE [u |-> [u2 EXCEPT !.Host = IF Port(u2) = <<>>
                                         THEN @ \o DefaultPort ELSE @],
              ok |-> TRUE]

\* net/url getScheme, for lower-case letters, digits and punctuation: the
\* scheme ends at the first colon if only letters come before it.
getScheme(s) ==
    LET stops == { i \in 1..Len(s) : s[i] < 97 \/ s[i] > 122 }
        i == IF stops = {} THEN 0
             ELSE CHOOSE x \in stops : \A y \in stops : x <= y
    IN  IF i = 0 \/ s[i] # Colon
        THEN [scheme |-> <<>>, rest |-> s, err |-> FALSE]
        ELSE IF i = 1 THEN [scheme |-> <<>>, rest |-> s, err |-> TRUE]
        ELSE [scheme |-> SubSeq(s, 1, i - 1),
              rest |-> SubSeq(s, i + 1, Len(s)), err |-> FALSE]

\* net/url parseAuthority: user-info before the last '@', then the host with
\* an optional port.
parseAuthority(a) ==
    LET i == LastIndexByte(a, 64)
        host == SubSeq(a, i + 1, Len(a))
        colon == LastIndexByte(host, Colon)
    IN  [user |-> IF i = 0 THEN Nil ELSE Some(SubSeq(a, 1, i - 1)),
         host |-> host,
         err |-> colon # 0
                   /\ ~validOptionalPort(SubSeq(host, colon, Len(host)))]

\* url.Parse on strings without '?', '#', '%', '[' and '*': a control byte is
\* an error; a scheme followed by a rootless rest gives an opaque URL; "//"
\* starts an authority that ends at the next slash.
Parse(s) ==
    LET bad == [url |-> Nil, err |-> "url.Error"]
        g == getScheme(s)
        rest == g.rest
        hasAuth == HasPrefix(rest, <<Slash, Slash>>)
                     /\ ~HasPrefix(rest, <<Slash, Slash, Slash>>)
        after == SubSeq(rest, 3, Len(rest))
        cut == IndexByte(after, Slash)
        a == parseAuthority(IF cut = 0 THEN after
                             ELSE SubSeq(after, 1, cut - 1))
        colon == IndexByte(rest, Colon)
        slash == IndexByte(rest, Slash)
        base == [EmptyURL EXCEPT !.Scheme = g.scheme]
    IN  IF \E i \in 1..Len(s) : s[i] < 32 \/ s[i] = 127 THEN bad
        ELSE IF g.err THEN bad
        ELSE IF ~IsAbs(rest) /\ g.scheme # <<>>
        THEN [url |-> Some([base EXCEPT !.Opaque = rest]), err |-> "nil"]
        ELSE IF ~IsAbs(rest) /\ colon # 0 /\ (slash = 0 \/ colon < slash)
        THEN bad
        ELSE IF hasAuth \/ (g.scheme # <<>> /\ HasPrefix(rest, <<Slash, Slash>>))
        THEN IF a.err THEN bad
             ELSE [url |-> Some([base EXCEPT
                                   !.User = a.user, !.Host = a.host,
                                   !.Path = IF cut = 0 THEN <<>>
                                            ELSE SubSeq(after, cut, Len(after))]),
                   err |-> "nil"]
        ELSE [url |-> Some([base EXCEPT !.Path = rest]), err |-> "nil"]

\* A *Request is Nil or Some([URL |-> u]), u being Nil or Some(url.URL).
ParseRequest(s) ==
    [ret |-> Some([URL |-> Parse(s).url]), err |-> Parse(s).err]

\* len(buf) in ReadRequest
RequestWindowWide == MaxURL + 3

RequestWindow == MaxURL + 2

\* A reader whose end is "early" returns io.EOF together with its last
\* bytes, one whose end is "late" returns it with 0 bytes on the call after.
ReadRequest(reader) ==
    LET n == Avail(reader, RequestWindow)
        e1 == IF Len(reader.data) = 0 THEN "EOF"
              ELSE IF reader.end = "early" /\ n = Len(reader.data) THEN "EOF"
              ELSE "nil"
        buf == [i \in 1..RequestWindow |->
                  IF i <= n THEN reader.data[i] ELSE 0]
        l == Index(buf, CRLF)
        p == ParseRequest(SubSeq(buf, 1, l))
    IN  IF l < 0 THEN [ret |-> Nil, err |-> "ErrRequest", n |-> n]
        ELSE IF e1 # "nil" THEN [ret |-> p.ret, err |-> e1, n |-> n]
        ELSE [ret |-> p.ret, err |-> p.err, n |-> n]

\* ---- the operations as steps of a program that holds one *Request
NoReq ==
    [op |-> "none", ok |-> FALSE, err |-> "nil", ret |-> Nil, arg |-> <<>>,
     chunk |-> 0, end |-> "late", n |-> 0, pre |-> EmptyURL]

OpParseRequest(s) ==
    LET o == ParseRequest(s)
    IN  /\ qlast.err # "panic"
        /\ req' = o.ret
        /\ qlast' = [NoReq EXCEPT !.op = "ParseRequest", !.err = o.err,
                                  !.ret = o.ret, !.arg = s]
        /\ UNCHANGED <<now, khVars, poolVars, respVars, cli, srv, conns, robj,
                     rstate, free>>

OpReadRequest(reader) ==
    LET o == ReadRequest(reader)
    IN  /\ qlast.err # "panic"
        /\ req' = o.ret
        /\ qlast' = [NoReq EXCEPT !.op = "ReadRequest", !.err = o.err,
                                  !.ret = o.ret, !.arg = reader.data,
                                  !.chunk = reader.chunk, !.end = reader.end,
                                  !.n = o.n]
        /\ UNCHANGED <<now, khVars, poolVars, respVars, cli, srv, conns, robj,
                     rstate, free>>

\* On a nil *Request or a nil URL the first assignment is a nil dereference.
OpCanonicalize ==
    /\ qlast.err # "panic"
    /\ IF req = Nil THEN /\ qlast' = [NoReq EXCEPT !.op = "Canonicalize",
                                                  !.err = "panic"]
                         /\ UNCHANGED req
       ELSE IF Val(req).URL = Nil
       THEN /\ qlast' = [NoReq EXCEPT !.op = "Canonicalize", !.err = "panic"]
            /\ UNCHANGED req
       ELSE LET o == Canonicalize(Val(Val(req).URL))
            IN  /\ req' = Some([URL |-> Some(o.u)])
                /\ qlast' = [NoReq EXCEPT !.op = "Canonicalize", !.ok = o.ok,
                                          !.pre = Val(Val(req).URL)]
    /\ UNCHANGED <<now, khVars, poolVars, respVars, cli, srv, conns, robj,
                     rstate, free>>

\* ---- the inputs
\* URLs a caller can build: scheme "" or "g"; opaque "" or "o"; no user or
\* user "g"; hosts "", "h", "h:1", ":1", "h:" and "[h]"; paths "", "/", "/h"
\* and "h".
URLs ==
    [Scheme : {<<>>, <<103>>}, Opaque : {<<>>, <<111>>},
     User : {Nil, Some(<<103>>)},
     Host : {<<>>, <<104>>, <<104, Colon, 49>>, <<Colon, 49>>,
             <<104, Colon>>, <<91, 104, 93>>},
     Path : {<<>>, <<Slash>>, <<Slash, 104>>, <<104>>}]

\* Request lines: an optional "g:", an optional "//", an authority ("", "h",
\* "h:1", "g@h") and a path ("", "/", "/h"); and lines with a bare CR or LF.
URLStrings ==
    { s \o d \o a \o p :
        s \in {<<>>, <<103, Colon>>}, d \in {<<>>, <<Slash, Slash>>},
        a \in {<<>>, <<104>>, <<104, Colon, 49>>, <<103, 64, 104>>},
        p \in {<<>>, <<Slash>>, <<Slash, 104>>} }
    \cup {<<13>>, <<104, 10, 104>>}

\* ------------------------------------------------------- gmc/client.go
\* url.URL.String, which fmt applies to the request for the verb %s.
URLString(u) ==
    LET scheme == IF u.Scheme # <<>> THEN u.Scheme \o <<Colon>> ELSE <<>>
        auth == u.Scheme # <<>> \/ u.Host # <<>> \/ u.User # Nil
        slashes == IF auth /\ (u.Host # <<>> \/ u.Path # <<>> \/ u.User # Nil)
                   THEN <<Slash, Slash>> ELSE <<>>
        user == IF auth /\ u.User # Nil THEN Val(u.User) \o <<64>> ELSE <<>>
        host == IF auth THEN u.Host ELSE <<>>
        sep == IF u.Path # <<>> /\ u.Path[1] # Slash /\ u.Host # <<>>
               THEN <<Slash>> ELSE <<>>
    IN  IF u.Opaque # <<>> THEN scheme \o u.Opaque
        ELSE scheme \o slashes \o user \o host \o sep \o u.Path

\* net.Dial wants host:port: an address without a port never connects.
Dialable(host) ==
    LET colon == LastIndexByte(host, Colon)
    IN  colon # 0 /\ colon < Len(host)
          /\ \A i \in 1..(colon - 1) : host[i] # Colon

\* An error value: <<>> is nil, <<e>> is the error e, <<w, e>> is e wrapped
\* by fmt.Errorf with the text w.
\* The branch of Do after the connection is made: the checker, if there is
\* one, decides whether the request is sent.
checkSkipped(checker, e) ==
    [called |-> checker, pc |-> "send", ret |-> <<>>]

check(checker, e) ==
    IF checker /\ e # "nil"
    THEN [called |-> TRUE, pc |-> "returned",
          ret |-> <<"VerifyCert returned an error", e>>]
    ELSE [called |-> checker, pc |-> "send", ret |-> <<>>]

\* The client and the context of one call of Do.
NoCall ==
    [pc |-> "idle", Proxy |-> <<>>, Checker |-> FALSE, host |-> <<>>,
     ServerCerts |-> FALSE, verify |-> "none", wire |-> <<>>, Res |-> Nil,
     log |-> <<>>, ret |-> <<>>]

\* Do, up to tls.Dial.
DoCall(proxy, checker) ==
    /\ cli.pc \in {"idle", "returned"}
    /\ req # Nil
    /\ Val(req).URL # Nil
    /\ cli' = [NoCall EXCEPT !.pc = "dial", !.Proxy = proxy,
                             !.Checker = checker,
                             !.host = IF proxy = <<>>
                                      THEN Hostname(Val(Val(req).URL))
                                      ELSE proxy]
    /\ UNCHANGED <<now, khVars, poolVars, respVars, req, qlast, srv, conns,
                     robj, rstate, free>>

\* tls.Dial and the error return after it.
DoDial(ok) ==
    /\ cli.pc = "dial"
    /\ ok => Dialable(cli.host)
    /\ cli' = IF ok
              THEN [cli EXCEPT !.pc = "verify", !.ServerCerts = TRUE,
                               !.log = Append(@, "dial")]
              ELSE [cli EXCEPT !.pc = "returned", !.ret = <<"dial">>]
    /\ UNCHANGED <<now, khVars, poolVars, respVars, req, qlast, srv, conns,
                     robj, rstate, free>>

\* c.Checker.VerifyCert(host, ctx.ServerCerts), returning e.
DoVerify(e) ==
    LET o == check(cli.Checker, e)
    IN  /\ cli.pc = "verify"
        /\ cli.Checker \/ e = "nil"
        /\ cli' = [cli EXCEPT !.pc = o.pc, !.ret = o.ret,
                              !.verify = IF cli.Checker THEN e ELSE "none",
                              !.log = IF o.called THEN Append(@, "verify")
                                      ELSE @]
        /\ UNCHANGED <<now, khVars, poolVars, respVars, req, qlast, srv, conns,
                     robj, rstate, free>>

\* fmt.Fprintf(con, "%s\r\n", ctx.Req)
DoSend ==
    /\ cli.pc = "send"
    /\ cli' = [cli EXCEPT !.pc = "receive",
                          !.wire = URLString(Val(Val(req).URL)) \o CRLF,
                          !.log = Append(@, "write")]
    /\ UNCHANGED <<now, khVars, poolVars, respVars, req, qlast, srv, conns,
                     robj, rstate, free>>

\* ctx.Res = new(gemini.Response); err = ctx.Res.FromReader(con)
DoReceive(reader) ==
    LET o == FromReader(ZeroResponse, reader)
    IN  /\ cli.pc = "receive"
        /\ cli' = [cli EXCEPT !.pc = "returned", !.Res = Some(o.r),
                              !.ret = IF o.err = "nil" THEN <<>>
                                      ELSE <<o.err>>,
                              !.log = Append(@, "read")]
        /\ UNCHANGED <<now, khVars, poolVars, respVars, req, qlast, srv, conns,
                     robj, rstate, free>>

\* ---------------------------------------------- gms/mux.go, gms/pool.go
\* How many connections the listening loop accepts.
MaxConns == 2

\* gemini.StatusBadRequest
StatusBadRequest == 59

\* The deferred calls of a goroutine run last in, first out.
PopDeferFIFO(defers) ==
    [f |-> Head(defers), rest |-> Tail(defers)]

PopDefer(defers) ==
    [f |-> defers[Len(defers)], rest |-> SubSeq(defers, 1, Len(defers) - 1)]

\* s.handler.ServeGem(ctx) on the response r of the context, for
\* RedirectHandler, a handler that writes a body, StripPrefix in front of
\* RedirectHandler, which dereferences ctx.Req.URL, and a handler that
\* panics.
ServeGem(h, request, r) ==
    LET redirect == [r EXCEPT !.Status = 30, !.meta = Some(<<Slash>>)]
        w == Write([r EXCEPT !.Status = 20], <<97>>)
    IN  IF h = "panic" THEN [r |-> r, panic |-> TRUE]
        ELSE IF h = "strip"
        THEN IF request = Nil THEN [r |-> r, panic |-> TRUE]
             ELSE IF Val(request).URL = Nil THEN [r |-> r, panic |-> TRUE]
             ELSE [r |-> redirect, panic |-> FALSE]
        ELSE IF h = "redirect" THEN [r |-> redirect, panic |-> FALSE]
        ELSE [r |-> w.r, panic |-> w.err = "panic"]

\* io.Copy(c, ctx.Res): Read until io.EOF; what was read goes to c.
Copy(r) ==
    LET o1 == Read(r, MaxBody + 1)
        o2 == Read(o1.r, MaxBody + 1)
    IN  IF o1.err = "panic" THEN [r |-> o1.r, out |-> <<>>, panic |-> TRUE]
        ELSE IF o1.err = "EOF" THEN [r |-> o1.r, out |-> <<>>, panic |-> FALSE]
        ELSE [r |-> o2.r, out |-> o1.out, panic |-> FALSE]

\* A connection goroutine: where it is, its net.Conn c ("conn", or "nil"
\* after a failed Accept), ctx.Req and err, the Response it holds (0: none),
\* the deferred calls, whether it is panicking, and what it wrote to c.
NewConn(c) ==
    [pc |-> "start", c |-> c, Req |-> Nil, err |-> "nil", res |-> 0,
     defers |-> <<>>, panicking |-> FALSE, served |-> FALSE, wire |-> <<>>,
     closed |-> FALSE, recovered |-> FALSE]

Running(i) == srv.state = "listening" /\ i \in DOMAIN conns

\* tls.Listen
SrvListen(ok) ==
    /\ srv.state = "init"
    /\ srv' = [srv EXCEPT !.state = IF ok THEN "listening" ELSE "returned"]
    /\ UNCHANGED <<conns, robj, rstate, free>>
    /\ UNCHANGED <<now, khVars, poolVars, respVars, req, qlast, cli>>

\* One turn of the listening loop: Accept, log its error, start the
\* goroutine on what Accept returned.
SrvAccept(ok) ==
    /\ srv.state = "listening"
    /\ srv.accepted < MaxConns
    /\ srv' = [srv EXCEPT !.accepted = @ + 1]
    /\ conns' = Append(conns, NewConn(IF ok THEN "conn" ELSE "nil"))
    /\ UNCHANGED <<robj, rstate, free>>
    /\ UNCHANGED <<now, khVars, poolVars, respVars, req, qlast, cli>>

\* defer c.Close(); ctx.Req, err = gemini.ReadRequest(c) and the bad-request
\* line.  On a nil net.Conn the call is a nil dereference with no recover
\* deferred.
ConnReadRequest(i, reader) ==
    LET o == ReadRequest(reader)
        k == conns[i]
    IN  /\ Running(i)
        /\ k.pc = "start"
        /\ IF k.c = "nil"
           THEN /\ conns' = [conns EXCEPT ![i].pc = "dead",
                                          ![i].panicking = TRUE]
                /\ srv' = [srv EXCEPT !.state = "dead"]
           ELSE /\ conns' = [conns EXCEPT
                    ![i].pc = "get", ![i].Req = o.ret, ![i].err = o.err,
                    ![i].defers = <<"Close">>,
                    ![i].wire = IF o.err # "nil"
                                THEN <<[kind |-> "status",
                                        bytes |-> Itoa(StatusBadRequest)
                                                    \o CRLF]>>
                                ELSE <<>>]
                /\ UNCHANGED srv
        /\ UNCHANGED <<robj, rstate, free>>
        /\ UNCHANGED <<now, khVars, poolVars, respVars, req, qlast, cli>>

\* ctx.Res = resPool.Get(): a Response a Put left in the pool, which leaves
\* the pool, or a new one from New; then the two defers and ServerPrepare.
ConnGet(i, id) ==
    /\ Running(i)
    /\ conns[i].pc = "get"
    /\ id \in free \/ (id \notin DOMAIN robj /\ id = Len(robj) + 1)
    /\ free' = free \ {id}
    /\ robj' = IF id \in DOMAIN robj
               THEN [robj EXCEPT ![id] = ServerPrepare(@)]
               ELSE Append(robj, ServerPrepare(ZeroResponse))
    /\ rstate' = IF id \in DOMAIN rstate
                 THEN [rstate EXCEPT ![id] = "held"]
                 ELSE Append(rstate, "held")
    /\ conns' = [conns EXCEPT ![i].pc = "handle", ![i].res = id,
                              ![i].defers = @ \o <<"Put", "Reset">>]
    /\ UNCHANGED srv
    /\ UNCHANGED <<now, khVars, poolVars, respVars, req, qlast, cli>>

\* The recover is deferred, then s.handler.ServeGem(ctx).
ConnHandle(i, h) ==
    LET k == conns[i]
        o == ServeGem(h, k.Req, robj[k.res])
    IN  /\ Running(i)
        /\ k.pc = "handle"
        /\ robj' = [robj EXCEPT ![k.res] = o.r]
        /\ conns' = [conns EXCEPT
                       ![i].pc = IF o.panic THEN "exit" ELSE "respond",
                       ![i].panicking = o.panic,
                       ![i].served = TRUE,
                       ![i].defers = Append(@, "recover")]
        /\ UNCHANGED <<srv, rstate, free>>
        /\ UNCHANGED <<now, khVars, poolVars, respVars, req, qlast, cli>>

\* ctx.Res.Flush(), the header line and io.Copy.  The header is formatted
\* with %d from the method value ctx.Status, not from its result: what fmt
\* writes starts with "%!d".
ConnRespond(i) ==
    LET k == conns[i]
        f == Flush(robj[k.res])
        c == Copy(f.r)
        header == [kind |-> "header",
                   bytes |-> <<37, 33, 100, Space>> \o Meta(f.r) \o CRLF]
        body == [kind |-> "body", bytes |-> c.out]
    IN  /\ Running(i)
        /\ k.pc = "respond"
        /\ robj' = [robj EXCEPT ![k.res] = IF f.err = "panic" THEN f.r
                                            ELSE c.r]
        /\ conns' = [conns EXCEPT
                       ![i].pc = "exit",
                       ![i].panicking = f.err = "panic" \/ c.panic,
                       ![i].wire = IF f.err = "panic" THEN @
                                   ELSE IF c.panic \/ c.out = <<>>
                                   THEN Append(@, header)
                                   ELSE @ \o <<header, body>>]
        /\ UNCHANGED <<srv, rstate, free>>
        /\ UNCHANGED <<now, khVars, poolVars, respVars, req, qlast, cli>>

\* The goroutine returns or unwinds: the next deferred call runs.  A panic
\* nothing recovered ends the process once the deferred calls are done.
ConnDefer(i) ==
    LET k == conns[i]
        d == PopDefer(k.defers)
    IN  /\ Running(i)
        /\ k.pc = "exit"
        /\ k.defers # <<>>
        /\ conns' = [conns EXCEPT
                       ![i].defers = d.rest,
                       ![i].panicking = IF d.f = "recover" THEN FALSE ELSE @,
                       ![i].recovered = IF d.f = "recover" THEN k.panicking
                                        ELSE @,
                       ![i].res = IF d.f = "Put" THEN 0 ELSE @,
                       ![i].closed = IF d.f = "Close" THEN TRUE ELSE @]
        /\ UNCHANGED srv
        /\ robj' = IF d.f = "Reset"
                   THEN [robj EXCEPT ![k.res] = Reset(@)] ELSE robj
        /\ rstate' = IF d.f = "Reset" THEN [rstate EXCEPT ![k.res] = "reset"]
                     ELSE IF d.f = "Put"
                     THEN [rstate EXCEPT ![k.res] =
                             IF @ = "reset" THEN "pooled" ELSE "pooledDirty"]
                     ELSE rstate
        /\ free' = IF d.f = "Put" THEN free \cup {k.res} ELSE free
        /\ UNCHANGED <<now, khVars, poolVars, respVars, req, qlast, cli>>

ConnDone(i) ==
    LET k == conns[i]
    IN  /\ Running(i)
        /\ k.pc = "exit"
        /\ k.defers = <<>>
        /\ conns' = [conns EXCEPT ![i].pc = IF k.panicking THEN "dead"
                                            ELSE "done"]
        /\ srv' = [srv EXCEPT !.state = IF k.panicking THEN "dead" ELSE @]
        /\ UNCHANGED <<robj, rstate, free>>
        /\ UNCHANGED <<now, khVars, poolVars, respVars, req, qlast, cli>>

\* The variables of the request, client and server programs in a
\* specification that does not use them.
RestUnused ==
    /\ req = Nil /\ qlast = NoReq /\ cli = NoCall
    /\ srv = [state |-> "init", accepted |-> 0]
    /\ conns = <<>> /\ robj = <<>> /\ rstate = <<>> /\ free = {}

\* The pool's variables in a specification that does not use the pool.
PoolUnused ==
    /\ certsNil = TRUE /\ certs = EmptyMap /\ disk = EmptyMap
    /\ nextGen = 1 /\ procs = {}
    /\ pc = EmptyMap /\ pname = EmptyMap /\ pgen = EmptyMap
    /\ res = EmptyMap /\ prev = EmptyMap /\ obs = EmptyMap /\ calls = EmptyMap
    /\ fails = 0 /\ crashed = FALSE

\* The known-hosts variables in a specification that does not use them.
KHUnused ==
    /\ kdir = "missing" /\ kfile = NoFile /\ kstore = "none"
    /\ hosts = EmptyMap /\ klast = NoOp

InitKH ==
    /\ now = 1
    /\ kdir \in {"missing", "dir", "notdir"}
    /\ kfile = NoFile
    /\ kstore = "none"
    /\ hosts = EmptyMap
    /\ klast = NoOp
    /\ PoolUnused
    /\ RespUnused
    /\ RestUnused

NextKH == NewKnownHosts \/ Verify \/ TickKH

SpecKH == InitKH /\ [][NextKH]_vars

\* One caller at a time.
InitPool == now = 1 /\ PoolStart({1}, Names) /\ KHUnused /\ RespUnused /\ RestUnused

\* Two goroutines call Get for the same name concurrently.
InitPoolConc ==
    now = 1 /\ PoolStart(Goroutines, {"a"}) /\ KHUnused /\ RespUnused /\ RestUnused

NextPool ==
    \/ \E p \in procs, n \in DOMAIN disk : GetCall(p, n)
    \/ \E p \in procs : GetHit(p)
    \/ \E p \in procs : GetExpired(p)
    \/ \E p \in procs : GetMiss(p)
    \/ \E p \in procs, readable \in BOOLEAN : load(p, readable)
    \/ \E p \in procs, ok \in BOOLEAN : generateKey(p, ok)
    \/ \E p \in procs, ok \in BOOLEAN : openKey(p, ok)
    \/ \E p \in procs, ok \in BOOLEAN : openCert(p, ok)
    \/ \E p \in procs, ok \in BOOLEAN : writeKey(p, ok)
    \/ \E p \in procs, ok \in BOOLEAN : writeCert(p, ok)
    \/ TickPool

SpecPool == InitPool /\ [][NextPool]_vars

SpecPoolConc == InitPoolConc /\ [][NextPool]_vars

\* A program that drives the codec: it makes a response, writes to it and
\* sends its header back through FromReader, or parses a stream into a
\* response that is new or was just Reset.
InitResp ==
    now = 1 /\ KHUnused /\ PoolUnused /\ RespUnused /\ RestUnused

NextCodec ==
    \/ \E s \in Statuses, m \in Metas :
          rhist.path = "idle" /\ OpNewResponse(s, m)
    \/ rhist.path = "writing" /\ OpHeader
    \/ \E b \in WriteArgs : rhist.path = "writing" /\ OpWrite(b)
    \/ rlast.op = "Header"
          /\ OpFromReader([data |-> rlast.out, chunk |-> 0])
    \/ \E d \in Streams, c \in Chunks :
          /\ rhist.path = "idle" /\ rlast.op \in {"none", "Reset"}
          /\ OpFromReader([data |-> d, chunk |-> c])
    \/ OpReset

SpecCodec == InitResp /\ [][NextCodec]_vars

\* A program that calls the operations of one Response in any order.
NextResp ==
    \/ \E s \in {20, 100} : OpNewResponse(s, <<109>>)
    \/ OpServerPrepare
    \/ OpReset
    \/ OpHeader
    \/ \E d \in FewStreams, c \in Chunks :
          OpFromReader([data |-> d, chunk |-> c])
    \/ \E l \in 1..2 : OpRead(l)
    \/ \E b \in WriteArgs : OpWrite(b)
    \/ \E s \in WriteArgs : OpWriteString(s)
    \/ OpFlush
    \/ OpBody

SpecResp == InitResp /\ [][NextResp]_vars

\* A program that holds a request: built by hand, parsed from a string or
\* read from a stream, then canonicalized.  The stream holds a request line
\* followed by CR LF, by a bare CR or by nothing, handed out whole or 3
\* bytes at a time.
InitReq ==
    /\ now = 1 /\ KHUnused /\ PoolUnused /\ RespUnused
    /\ req \in {Nil} \cup { Some([URL |-> Some(u)]) : u \in URLs }
    /\ qlast = NoReq /\ cli = NoCall
    /\ srv = [state |-> "init", accepted |-> 0]
    /\ conns = <<>> /\ robj = <<>> /\ rstate = <<>> /\ free = {}

NextReq ==
    \/ \E s \in URLStrings : OpParseRequest(s)
    \/ \E s \in URLStrings, e \in {CRLF, <<13>>, <<>>}, c \in {0, 3},
          x \in {"late", "early"} :
          OpReadRequest([data |-> s \o e, chunk |-> c, end |-> x])
    \/ OpCanonicalize

SpecReq == InitReq /\ [][NextReq]_vars

\* A client that calls Do on canonicalized requests, as Fetch does, with and
\* without the proxy "p:1" and with and without a checker, which returns
\* nil, an error wrapping gemini.ErrCert or an I/O error.
InitDo ==
    /\ now = 1 /\ KHUnused /\ PoolUnused /\ RespUnused
    /\ req \in { Some([URL |-> Some(Canonicalize(Val(Parse(s).url)).u)]) :
                   s \in { x \in URLStrings :
                             /\ Parse(x).err = "nil"
                             /\ Canonicalize(Val(Parse(x).url)).ok } }
    /\ qlast = NoReq /\ cli = NoCall
    /\ srv = [state |-> "init", accepted |-> 0]
    /\ conns = <<>> /\ robj = <<>> /\ rstate = <<>> /\ free = {}

NextDo ==
    \/ \E p \in {<<>>, <<112, Colon, 49>>}, ch \in BOOLEAN : DoCall(p, ch)
    \/ \E ok \in BOOLEAN : DoDial(ok)
    \/ \E e \in {"nil", "ErrCert", "io"} : DoVerify(e)
    \/ DoSend
    \/ \E d \in FewStreams, c \in Chunks :
          DoReceive([data |-> d, chunk |-> c])

SpecDo == InitDo /\ [][NextDo]_vars

\* A server that accepts up to MaxConns connections and serves them
\* concurrently; a client sends "/" and CR LF, "/" without CR LF, or a
\* control byte and CR LF, which does not parse.
InitServe == now = 1 /\ KHUnused /\ PoolUnused /\ RespUnused /\ RestUnused

NextServe ==
    \/ \E ok \in BOOLEAN : SrvListen(ok)
    \/ \E ok \in BOOLEAN : SrvAccept(ok)
    \/ \E i \in 1..MaxConns, d \in {<<Slash>> \o CRLF, <<Slash>>, <<1>> \o CRLF} :
          ConnReadRequest(i, [data |-> d, chunk |-> 0, end |-> "late"])
    \/ \E i \in 1..MaxConns, id \in 1..MaxConns : ConnGet(i, id)
    \/ \E i \in 1..MaxConns, h \in {"redirect", "write", "strip", "panic"} :
          ConnHandle(i, h)
    \/ \E i \in 1..MaxConns : ConnRespond(i)
    \/ \E i \in 1..MaxConns : ConnDefer(i)
    \/ \E i \in 1..MaxConns : ConnDone(i)

SpecServe == InitServe /\ [][NextServe]_vars

\* ------------------------------------------------- claims on KnownHosts
\* C1. VerifyCert on a host whose record is not expired (Expiry later than
\* now), with a leaf whose fingerprint differs from the stored one, returns
\* gemini.ErrCert and leaves the record, in memory and on disk, unchanged.
C1_LiveMismatchRejected ==
    (klast.op = "verify" /\ klast.old = "live" /\ klast.differs)
        => (klast.res = "ErrCert" /\ klast.memSame /\ klast.fileSame)

\* C2. VerifyCert on a host whose record is expired (non-zero Expiry not later
\* than now) does not fail the trust check, whatever the leaf, and replaces the
\* record by the leaf's fingerprint and NotAfter.
C2_ExpiredRepinned ==
    (klast.op = "verify" /\ klast.old = "expired")
        => /\ klast.res # "ErrCert"
           /\ (klast.out = "ok" => klast.res = "nil")
           /\ klast.host \in DOMAIN hosts
           /\ hosts[klast.host] = [Expiry |-> klast.cert.NotAfter,
                                   Fingerprint |-> Fingerprint(klast.cert)]

\* C3. First use: with no record for host and a write that succeeds,
\* VerifyCert returns nil, r.hosts[host] holds the leaf's fingerprint and
\* NotAfter, and the file holds the whole mapping; the next VerifyCert with the
\* same host and chain is not a trust error and returns nil when its write
\* succeeds.
C3_FirstUse ==
    /\ (klast.op = "verify" /\ klast.old = "none")
          => /\ klast.res # "ErrCert"
             /\ klast.host \in DOMAIN hosts
             /\ hosts[klast.host] = [Expiry |-> klast.cert.NotAfter,
                                     Fingerprint |-> Fingerprint(klast.cert)]
             /\ (klast.out = "ok" =>
                    /\ klast.res = "nil"
                    /\ kfile.st = "json"
                    /\ kfile.data = { <<k, hosts[k].Expiry, hosts[k].Fingerprint>> :
                                         k \in DOMAIN hosts })
    /\ (klast.op = "verify" /\ klast.again)
          => /\ klast.res # "ErrCert"
             /\ (klast.out = "ok" => klast.res = "nil")

\* A second call that repeats a successful first use and returns nil, with
\* records for both hosts in the mapping.
C3_Witness ==
    /\ klast.op = "verify" /\ klast.again /\ klast.res = "nil"
    /\ DOMAIN hosts = HostNames
    /\ kfile.data = Marshal(hosts)

\* C4. NewKnownHosts on a path whose file holds a mapping written by Save
\* yields a store whose records equal the saved ones.
C4_Reloaded ==
    (klast.op = "open" /\ klast.out = "ok" /\ kstore = "open" /\ kfile.st = "json")
        => hosts = Decode(kfile.data)

\* C24. A failure of Save is never reported as a trust failure: when VerifyCert
\* gets as far as Save and the write fails, it returns the write's error, not
\* gemini.ErrCert; and it returns gemini.ErrCert only when the leaf's
\* fingerprint differs from the stored one.
C24_SaveFailureIsNotTrust ==
    /\ (klast.op = "verify" /\ klast.out \in {"openfail", "writefail"})
          => klast.res = "io"
    /\ (klast.op = "verify" /\ klast.res = "ErrCert") => klast.differs

C24_Witness ==
    /\ klast.op = "verify" /\ klast.out = "writefail" /\ klast.res = "io"
    /\ klast.old = "live" /\ klast.differs

\* ------------------------------------------------------- claims on Pool
\* C5. Whenever Get returns a certificate with a nil error, the certificate's
\* leaf parsed and its NotAfter is not before the time of the expiry check the
\* call made.
C5_NeverExpired ==
    \A p \in Goroutines :
        res[p].kind = "cert" => (res[p].cert.parses /\ res[p].cert.na >= res[p].at)

\* A Get that returned a certificate loaded from the directory at the very tick
\* of its NotAfter.
C5_Witness ==
    \E p \in procs : /\ res[p].kind = "cert" /\ obs[p].left
                     /\ res[p].cert.na = res[p].at

\* C6. On a pool opened with NewStore, a Get for a name with no cached record
\* and no pair on disk, none of whose steps fails, returns a certificate (it
\* does not panic) and leaves the generated pair on disk.
C6_FirstGetReturns ==
    \A p \in procs :
        (certsNil /\ obs[p].start = "nopair" /\ fails = 0 /\ pc[p] = "idle")
            => /\ res[p].kind = "cert"
               /\ disk[pname[p]] = PairOf(pgen[p])

C9_NoPartialUpdate ==
    \A p \in procs :
        (obs[p].gend /\ pc[p] \notin GenPcs)
            => \/ disk[pname[p]] = obs[p].pre
               \/ disk[pname[p]] = PairOf(pgen[p])

\* C10. When two goroutines have each run generate for the same name and none
\* is inside generate any more (no step having failed), the key file and the
\* certificate file hold the same generation.
C10_SameGeneration ==
    (/\ fails = 0
     /\ \A p \in procs : obs[p].gend /\ pc[p] \notin GenPcs
     /\ \A p, q \in procs : pname[p] = pname[q])
        => \A p \in procs :
              /\ disk[pname[p]].key.st = "pem"
              /\ disk[pname[p]].pem.st = "pem"
              /\ disk[pname[p]].key.gen = disk[pname[p]].pem.gen

\* ------------------------------------------------- claims on Response
\* C11. Header round trip: for a status in [10,99] and a meta of at most
\* MaxMeta bytes, NewResponse(status, meta), then Header(), then FromReader
\* on a reader that carries exactly those header bytes (delivered whole),
\* succeeds and yields that Status and that Meta.
C11_HeaderRoundTrip ==
    (rlast.op = "FromReader" /\ rhist.echo /\ rlast.chunk = 0)
        => /\ rlast.err = "nil"
           /\ resp.Status = Val(rhist.made).status
           /\ Meta(resp) = Val(rhist.made).meta

\* C12. FromReader fails with ErrHeader on every input whose first two bytes
\* are not both ASCII digits and on every input whose third byte is not a
\* space.
C12_BadPrefixRejected ==
    (rlast.op = "FromReader" /\ Len(rlast.arg) >= 3
        /\ (~IsDigit(rlast.arg[1]) \/ ~IsDigit(rlast.arg[2])
              \/ rlast.arg[3] # Space))
        => rlast.err = "ErrHeader"

\* C13. Reset leaves every field of the Response cleared (Status, meta, body,
\* read, flushed, reader, writer), and a Response that is idle (new or
\* Reset) and then prepared with ServerPrepare accepts Write and WriteString.
C13_ResetClears ==
    /\ rlast.op = "Reset" => resp = ZeroResponse
    /\ (rlast.op \in {"Write", "WriteString"} /\ rhist.path = "writing")
          => (rlast.err = "nil" /\ rlast.n = Len(rlast.arg))

\* C14. Once the Response is flushed, every Write and WriteString returns
\* ErrFlush with a count of 0 and changes nothing, and Body() still yields
\* the bytes that were written before the Flush.
C14_WriteAfterFlush ==
    (rlast.op \in {"Write", "WriteString"} /\ rlast.pre.flushed)
        => /\ rlast.err = "ErrFlush"
           /\ rlast.n = 0
           /\ resp = rlast.pre
           /\ rhist.path = "flushed" => Body(resp).out = rhist.written

C14_Witness ==
    /\ rlast.op = "Write" /\ rlast.pre.flushed /\ rlast.arg # <<>>
    /\ rhist.byNew /\ rhist.path = "flushed" /\ rhist.written # <<>>

\* C15. For a Response made by NewResponse, after any Write and WriteString
\* calls and a Flush, Body() returns with a nil error the concatenation of
\* the written bytes in call order (the empty body after no write).
C15_BodyIsConcatenation ==
    (rlast.op = "Body" /\ rhist.byNew /\ rhist.path = "flushed"
        /\ ~rhist.readSeen)
        => (rlast.err = "nil" /\ rlast.out = rhist.written)

C15_Witness ==
    /\ rlast.op = "Body" /\ rhist.byNew /\ rhist.path = "flushed"
    /\ ~rhist.readSeen
    /\ rhist.written = <<97, 98>> /\ rlast.out = <<97, 98>>

\* C16. For a Response populated by FromReader: after at least one Read,
\* Body() returns ErrRead and the empty string; with no Read so far, Body()
\* returns the complete body with a nil error, every time it is called.
C16_BodyAfterFromReader ==
    (rlast.op = "Body" /\ rhist.path = "client")
        => IF rhist.readSeen
           THEN rlast.err = "ErrRead" /\ rlast.out = <<>>
           ELSE rlast.err = "nil" /\ rlast.out = rhist.full

\* C17. For a Response populated by FromReader whose stream Body() has
\* drained, a later Read is rejected with ErrRead.
C17_ReadAfterBodyRejected ==
    (rlast.op = "Read" /\ rhist.path = "client" /\ rhist.drained)
        => rlast.err = "ErrRead"

\* C18. NewResponse(status, meta) fails with ErrHeader and returns no
\* Response when status is outside [10,99] or meta is longer than MaxMeta
\* bytes; otherwise it returns a Response with that Status and Meta whose
\* Write succeeds.
C18_NewResponseValidates ==
    /\ rlast.op = "NewResponse"
          => IF rlast.status < 10 \/ rlast.status > 99
                  \/ Len(rlast.arg) > MaxMeta
             THEN rlast.err = "ErrHeader" /\ ~rlast.ret
             ELSE /\ rlast.err = "nil" /\ rlast.ret
                  /\ resp.Status = rlast.status /\ Meta(resp) = rlast.arg
                  /\ resp.writer # Nil /\ ~resp.flushed
    /\ (rlast.op = "Write" /\ rhist.byNew /\ rhist.path = "writing")
          => (rlast.err = "nil" /\ rlast.n = Len(rlast.arg))

C18_Witness ==
    /\ rlast.op = "Write" /\ rhist.byNew /\ rhist.path = "writing"
    /\ rlast.arg = <<97>> /\ rlast.err = "nil"
    /\ resp.Status = 99 /\ Len(Meta(resp)) = MaxMeta

\* C19. FromReader fails with ErrHeader whenever CR LF does not occur
\* completely within the bytes it obtained for the header window of
\* MaxMeta+5 bytes; a header whose meta has MaxMeta+1 bytes is rejected.
C19_NoTerminatorRejected ==
    (rlast.op = "FromReader"
        /\ Index(SubSeq(rlast.arg, 1, Min(rlast.n, MaxMeta + 5)), CRLF) = -1)
        => rlast.err = "ErrHeader"

C19_Witness ==
    /\ rlast.op = "FromReader" /\ rlast.chunk = 0
    /\ rlast.arg = <<50, 48, Space>> \o [i \in 1..(MaxMeta + 1) |-> 109]
                      \o CRLF
    /\ rlast.err = "ErrHeader"

\* C20. No operation of Response panics: one that is called in a state
\* where it is not legal returns an error.
C20_NoPanic == ~panicked /\ rlast.err # "panic"

\* C27. For a flushed Response, Body() returns the bytes written before the
\* Flush with a nil error, whatever Read calls were made on it before, for
\* every body length including the empty body.
C27_BodyAfterReads ==
    (rlast.op = "Body" /\ rhist.path = "flushed")
        => (rlast.err = "nil" /\ rlast.out = rhist.written)

\* C30. FromReader accepts a well-formed response however the reader chunks
\* it: for two digits that make a status in [10,99], a space, a meta of at most
\* MaxMeta bytes, CR LF and any body, it returns nil with that Status, that
\* Meta and that body left to read.
C30_ChunkingIndependent ==
    LET a == rlast.arg
        idx == Index(SubSeq(a, 4, Len(a)), CRLF)
    IN  (rlast.op = "FromReader" /\ Len(a) >= 5
            /\ IsDigit(a[1]) /\ a[1] # Zero /\ IsDigit(a[2]) /\ a[3] = Space
            /\ idx >= 0 /\ idx <= MaxMeta)
            => /\ rlast.err = "nil"
               /\ resp.Status = 10 * (a[1] - Zero) + (a[2] - Zero)
               /\ Meta(resp) = SubSeq(a, 4, 3 + idx)
               /\ rhist.full = SubSeq(a, 6 + idx, Len(a))

\* ---------------------------------------------------- claims on Request
\* C21. Canonicalize returns true exactly when the URL has a non-empty host
\* name and an absolute path; when it returns true the URL has that host
\* name, an absolute path, no user-info, no opaque part, its scheme or
\* "gemini" if it had none, and its port or 1965 if it had none.
C21_Canonical ==
    LET pre == qlast.pre
        u == Val(Val(req).URL)
    IN  (qlast.op = "Canonicalize" /\ qlast.err = "nil") =>
          /\ qlast.ok <=> (Hostname(pre) # <<>> /\ IsAbs(pre.Path))
          /\ qlast.ok =>
               /\ Hostname(u) # <<>> /\ Len(u.Path) > 0 /\ u.Path[1] = Slash
               /\ u.User = Nil /\ u.Opaque = <<>>
               /\ u.Scheme # <<>>
               /\ u.Scheme = IF pre.Scheme = <<>> THEN DefaultScheme
                             ELSE pre.Scheme
               /\ Port(u) # <<>>
               /\ Port(u) = IF Port(pre) = <<>> THEN Tail(DefaultPort)
                            ELSE Port(pre)

\* A URL with user-info, an opaque part, no scheme and no port was
\* canonicalized with success.
C21_Witness ==
    /\ qlast.op = "Canonicalize" /\ qlast.ok
    /\ qlast.pre.User # Nil /\ qlast.pre.Opaque # <<>>
    /\ qlast.pre.Scheme = <<>> /\ Port(qlast.pre) = <<>>

\* C22. For a request line s of at most MaxURL bytes without CR LF,
\* ReadRequest on a stream that delivers s and CR LF in one Read returns the
\* request and the error of ParseRequest(s), however the stream reports its
\* end.
C22_ReadIsParse ==
    LET a == qlast.arg
        s == SubSeq(a, 1, Len(a) - 2)
    IN  (qlast.op = "ReadRequest" /\ qlast.chunk = 0 /\ Len(a) >= 2
           /\ Len(a) <= MaxURL + 2 /\ SubSeq(a, Len(a) - 1, Len(a)) = CRLF
           /\ Index(s, CRLF) < 0)
          => (qlast.ret = ParseRequest(s).ret /\ qlast.err = ParseRequest(s).err)

\* C23. ReadRequest reads at most MaxURL+2 bytes; if there is no CR LF in
\* the bytes it read, it returns a nil request and ErrRequest.
C23_NoTerminator ==
    qlast.op = "ReadRequest" =>
      /\ qlast.n <= MaxURL + 2
      /\ Index(SubSeq(qlast.arg, 1, qlast.n), CRLF) < 0
           => (qlast.ret = Nil /\ qlast.err = "ErrRequest")

\* A stream longer than the window, whose CR LF comes after the window, was
\* read.
C23_Witness ==
    /\ qlast.op = "ReadRequest" /\ qlast.n = MaxURL + 2
    /\ Index(qlast.arg, CRLF) >= 0
    /\ qlast.ret = Nil /\ qlast.err = "ErrRequest"

\* ------------------------------------------------- claims on Client.Do
\* C28. With a Checker, VerifyCert is called before any request byte is
\* written; when it returns an error, Do writes no request, reads no
\* response and returns an error that wraps the checker's error.
C28_VerifyBeforeSend ==
    /\ (cli.Checker /\ cli.wire # <<>>) =>
          \E i, j \in 1..Len(cli.log) :
             i < j /\ cli.log[i] = "verify" /\ cli.log[j] = "write"
    /\ (cli.Checker /\ cli.verify \notin {"none", "nil"}) =>
          /\ cli.wire = <<>> /\ cli.Res = Nil
          /\ \A i \in 1..Len(cli.log) : cli.log[i] \notin {"write", "read"}
          /\ cli.pc = "returned"
          /\ Len(cli.ret) = 2 /\ cli.ret[2] = cli.verify

\* The checker of a client that reached its proxy refused the certificate,
\* and Do returned.
C28_Witness ==
    /\ cli.pc = "returned" /\ cli.Checker /\ cli.verify = "ErrCert"
    /\ cli.log = <<"dial", "verify">>

\* ----------------------------------------------- claims on Server.Serve
\* C25. No failure while handling a connection, a panic of the connection
\* goroutine or a failed Accept included, terminates the process.
C25_ServerSurvives == srv.state # "dead"

\* C26. A Response from resPool is held by one connection at a time and is
\* not in the pool while it is held; whenever it goes back to the pool Reset
\* was called on it first, and a goroutine that has exited holds none.
C26_ResetBeforePut ==
    /\ \A i, j \in DOMAIN conns :
          (i # j /\ conns[i].res # 0) => conns[i].res # conns[j].res
    /\ \A i \in DOMAIN conns : conns[i].res # 0 => conns[i].res \notin free
    /\ \A id \in DOMAIN rstate : rstate[id] # "pooledDirty"
    /\ \A id \in free : rstate[id] = "pooled"
    /\ \A i \in DOMAIN conns :
          conns[i].pc = "done" => (conns[i].res = 0 /\ conns[i].served)

\* A goroutine whose handler panicked has exited and its Response, Reset, is
\* held again by a later connection.
C26_Witness ==
    \E i, j \in DOMAIN conns :
       /\ conns[i].pc = "done" /\ conns[i].recovered
       /\ conns[j].res # 0 /\ Len(robj) = 1

\* C29. When ReadRequest fails the server writes the bad-request status
\* line and nothing else and does not invoke the handler; no connection
\* gets more than one response header.
C29_BadRequestOnly ==
    \A i \in DOMAIN conns :
       /\ conns[i].err # "nil" =>
             /\ ~conns[i].served
             /\ \A n \in 1..Len(conns[i].wire) :
                   conns[i].wire[n].kind = "status"
       /\ Cardinality({ n \in 1..Len(conns[i].wire) :
                          conns[i].wire[n].kind \in {"status", "header"} }) <= 1

\* C31. A FromReader call that fails with ErrHeader leaves the Response as
\* it was before the call: Status, meta, body, reader and the read and
\* flushed flags are unchanged.
C31_FailedFromReaderFrame ==
    (rlast.op = "FromReader" /\ rlast.err = "ErrHeader") => resp = rlast.pre

====
